---- MODULE Spec2Model ----
(***************************************************************************)
(* Model of arm_bit_banding.h: the bit-band address translation macros,   *)
(* abb_make, abb_set, abb_clear and abb_tst, together with the Cortex-M   *)
(* SRAM bit-band region and its alias region that the handles point into. *)
(*                                                                         *)
(* Addresses and memory words are uint32_t.  They are kept as two 16-bit  *)
(* limbs [hi, lo] so that every operation is taken modulo 2^32 exactly as *)
(* the C code does on the 32-bit target.                                   *)
(***************************************************************************)
EXTENDS Integers, FiniteSets, TLC

VARIABLES
    mem,    \* the bytes of the modelled storage cells in the bit-band region
    ram,    \* the words of ordinary (not aliased) memory a handle can point to
    flag,   \* the flag_t each execution context holds
    ret,    \* what the most recent abb_tst call returned
    last,   \* per alias word: the most recent abb_set/abb_clear and its caller
    inIsr,  \* TRUE while the interrupt handler has preempted the main thread
    fault,  \* TRUE once an access to an unmapped address raised a bus fault
    in,     \* the arguments of a single abb_make call (specification SpecMake)
    out     \* the value that call returned, or Pending before the call

vars == <<mem, ram, flag, ret, last, inIsr, fault, in, out>>

----------------------------------------------------------------------------
(* uint32_t *)

LIMB == 65536

U32(h, l) == [hi |-> h, lo |-> l]

\* (uint32_t)n for an int 0 <= n < 2^31
ToU32(n) == U32(n \div LIMB, n % LIMB)

Add32(a, b) ==
    LET s == a.lo + b.lo
    IN  U32((a.hi + b.hi + (s \div LIMB)) % LIMB, s % LIMB)

Sub32(a, b) ==
    LET d == a.lo - b.lo
        borrow == IF d < 0 THEN 1 ELSE 0
    IN  U32((a.hi - b.hi - borrow) % LIMB, d % LIMB)

\* a * k for an int constant 0 <= k <= 32768
Mul32(a, k) ==
    LET p == a.lo * k
    IN  U32((a.hi * k + (p \div LIMB)) % LIMB, p % LIMB)

----------------------------------------------------------------------------
(* Configuration and definitions *)

\* base of the SRAM bit-band alias region, 0x22000000
SRAM1_BB_BASE == U32(\h2200, 0)

\* base of the SRAM bit-band region, 0x20000000
SRAM1_BASE == U32(\h2000, 0)

\* (flag_t)NULL
INVALID_FLAG == U32(0, 0)

\* uint8_t bit: the largest value the parameter can carry
UINT8_MAX == 255

----------------------------------------------------------------------------
(* Macros *)

BIT_WORD_OFFSET_scale16(byte_offset, bit_num) ==
    Add32(Mul32(byte_offset, 16), ToU32(bit_num * 4))

BIT_WORD_OFFSET_bitx1(byte_offset, bit_num) ==
    Add32(Mul32(byte_offset, 32), ToU32(bit_num))

BIT_WORD_OFFSET(byte_offset, bit_num) ==
    Add32(Mul32(byte_offset, 32), ToU32(bit_num * 4))

BIT_WORD_ADDR_nobase(byte_offset, bit_num) ==
    BIT_WORD_OFFSET(byte_offset, bit_num)

BIT_WORD_ADDR(byte_offset, bit_num) ==
    Add32(SRAM1_BB_BASE, BIT_WORD_OFFSET(byte_offset, bit_num))

BYTE_OFFSET(ADDR) == Sub32(ADDR, SRAM1_BASE)

MAKE_FLAG(ADDR, BIT) == BIT_WORD_ADDR(BYTE_OFFSET(ADDR), BIT)

----------------------------------------------------------------------------
(* abb_make *)

abb_make_le8(addr, bit) ==
    IF bit <= 8 THEN MAKE_FLAG(addr, bit) ELSE INVALID_FLAG

\* a variant that validates the cell address as well
abb_make_checked(addr, bit) ==
    IF bit < 8 /\ addr.hi \in \h2000..\h200F
    THEN MAKE_FLAG(addr, bit)
    ELSE INVALID_FLAG

abb_make(addr, bit) ==
    IF bit < 8 THEN MAKE_FLAG(addr, bit) ELSE INVALID_FLAG

----------------------------------------------------------------------------
(* The memory the handles point into.  The lowest 1MB of SRAM is the      *)
(* bit-band region; every bit of it has a word of its own in the 32MB     *)
(* alias region.  Writing an alias word sets or clears the bit (bit 0 of  *)
(* the value written decides), reading it yields 0 or 1.                  *)

ZERO == U32(0, 0)

ONE == U32(0, 1)

\* addr lies in the bit-band region, 0x20000000-0x200FFFFF
InBitBand(addr) == addr.hi \in \h2000..\h200F

\* a lies in the alias region, 0x22000000-0x23FFFFFF
InAlias(a) == a.hi \in \h2200..\h23FF

\* the modelled storage cells: the uint8_t flag variables of the callers
CellA == U32(\h2000, 4)

CellB == U32(\h200F, \hFFFF)

Cells == {CellA, CellB}

\* ordinary SRAM right behind the alias region, 0x24000000
PlainWords == {U32(\h2400, 0)}

\* the words a read of unmapped memory is taken to yield
WordVals == {ZERO, ONE, U32(0, 2), U32(1, 1), U32(\hFFFF, \hFFFF)}

\* what ordinary memory holds at start
InitWords == {U32(1, 1), U32(\hFFFF, \hFFFF)}

InitBytes == {\hA5, \h5A}

BitOf(byte, n) == (byte \div (2 ^ n)) % 2

WithBit(byte, n, v) == byte - BitOf(byte, n) * (2 ^ n) + v * (2 ^ n)

\* the bit of the bit-band region that alias word a stands for
AliasTarget(a) ==
    LET off == Sub32(a, SRAM1_BB_BASE)
        word == off.hi * (LIMB \div 4) + (off.lo \div 4)
    IN  [cell |-> Add32(SRAM1_BASE, ToU32(word \div 8)), bit |-> word % 8]

IsCellAlias(a) == InAlias(a) /\ AliasTarget(a).cell \in Cells

Unmapped(a) == ~IsCellAlias(a) /\ a \notin PlainWords

\* the bytes after a word write to alias word a
BandWrite(m, a, w) ==
    LET t == AliasTarget(a)
    IN  [m EXCEPT ![t.cell] = WithBit(@, t.bit, w.lo % 2)]

\* the memory after the volatile store *a = w; a store to an unmapped
\* address is dropped here, or ends in BusFault
Store(s, a, w) ==
    IF IsCellAlias(a) THEN [s EXCEPT !.mem = BandWrite(@, a, w)]
    ELSE IF a \in PlainWords THEN [s EXCEPT !.ram = [@ EXCEPT ![a] = w]]
    ELSE s

\* the words the volatile load *a can yield
Load(a) ==
    IF IsCellAlias(a)
    THEN LET t == AliasTarget(a) IN {U32(0, BitOf(mem[t.cell], t.bit))}
    ELSE IF a \in PlainWords THEN {ram[a]}
    ELSE WordVals

----------------------------------------------------------------------------
(* abb_set, abb_clear, abb_tst *)

Memory == [mem |-> mem, ram |-> ram]

\* a store through a pointer of twice the width also hits the next word
abb_set_wide(s, f) == Store(Store(s, f, ONE), Add32(f, ToU32(4)), ONE)

abb_set(s, f) == Store(s, f, ONE)

abb_clear_wide(s, f) == Store(Store(s, f, ZERO), Add32(f, ToU32(4)), ZERO)

abb_clear_as_set(s, f) == Store(s, f, ONE)

abb_clear(s, f) == Store(s, f, ZERO)

\* the word read and the value returned, for every word the load can yield
abb_tst_truthy(f) == {[w |-> w, v |-> (w # ZERO)] : w \in Load(f)}

abb_tst(f) == {[w |-> w, v |-> (w = ONE)] : w \in Load(f)}

----------------------------------------------------------------------------
(* The callers: the main thread and an interrupt handler that preempts it *)
(* between any two of its calls and runs to completion.                   *)

Ctx == {"main", "isr"}

NoRet == [h |-> ZERO, w |-> ZERO, v |-> FALSE, by |-> "none"]

NoWrite == [v |-> 0, by |-> "none"]

Pending == [done |-> FALSE, val |-> ZERO]

Returned(v) == [done |-> TRUE, val |-> v]

NoIn == [addr |-> ZERO, bit |-> 0]

\* the arguments the callers pass to abb_make
MakeInputs ==
    { [addr |-> CellA, bit |-> 3],
      [addr |-> CellA, bit |-> 4],
      [addr |-> CellB, bit |-> 7],
      [addr |-> CellA, bit |-> 8],
      [addr |-> CellB, bit |-> UINT8_MAX],
      [addr |-> U32(\h2800, 4), bit |-> 3],
      [addr |-> U32(\h2010, 0), bit |-> 0],
      [addr |-> U32(\h26F0, 0), bit |-> 0] }

\* the alias words the callers can hold a handle of
Tracked ==
    {h \in {abb_make(i.addr, i.bit) : i \in MakeInputs} : IsCellAlias(h)}

Running(c) == ~fault /\ (inIsr <=> c = "isr")

Make(c, i) ==
    /\ Running(c)
    /\ flag' = [flag EXCEPT ![c] = abb_make(i.addr, i.bit)]
    /\ ret' = NoRet
    /\ UNCHANGED <<mem, ram, last, inIsr, fault, in, out>>

Write(c, s, v) ==
    /\ mem' = s.mem
    /\ ram' = s.ram
    /\ last' = IF flag[c] \in DOMAIN last
               THEN [last EXCEPT ![flag[c]] = [v |-> v, by |-> c]]
               ELSE last
    /\ ret' = NoRet
    /\ UNCHANGED <<flag, inIsr, fault, in, out>>

Set(c) == Running(c) /\ Write(c, abb_set(Memory, flag[c]), 1)

Clear(c) == Running(c) /\ Write(c, abb_clear(Memory, flag[c]), 0)

\* a test that consumes the flag: the read is followed by a clearing store
Tst_consume(c) ==
    /\ Running(c)
    /\ \E r \in abb_tst(flag[c]) :
          ret' = [h |-> flag[c], w |-> r.w, v |-> r.v, by |-> c]
    /\ mem' = abb_clear(Memory, flag[c]).mem
    /\ ram' = abb_clear(Memory, flag[c]).ram
    /\ UNCHANGED <<flag, last, inIsr, fault, in, out>>

Tst(c) ==
    /\ Running(c)
    /\ \E r \in abb_tst(flag[c]) :
          ret' = [h |-> flag[c], w |-> r.w, v |-> r.v, by |-> c]
    /\ UNCHANGED <<mem, ram, flag, last, inIsr, fault, in, out>>

\* the access of abb_set, abb_clear or abb_tst through a handle that points
\* at no memory (the sentinel included) may end in a bus fault instead
BusFault(c) ==
    /\ Running(c)
    /\ Unmapped(flag[c])
    /\ fault' = TRUE
    /\ ret' = NoRet
    /\ UNCHANGED <<mem, ram, flag, last, inIsr, in, out>>

IsrEnter ==
    /\ ~fault
    /\ ~inIsr
    /\ inIsr' = TRUE
    /\ UNCHANGED <<mem, ram, flag, ret, last, fault, in, out>>

IsrExit ==
    /\ ~fault
    /\ inIsr
    /\ inIsr' = FALSE
    /\ UNCHANGED <<mem, ram, flag, ret, last, fault, in, out>>

Init ==
    /\ mem \in [Cells -> InitBytes]
    /\ ram \in [PlainWords -> InitWords]
    /\ flag = [c \in Ctx |-> INVALID_FLAG]
    /\ ret = NoRet
    /\ last = [h \in Tracked |-> NoWrite]
    /\ inIsr = FALSE
    /\ fault = FALSE
    /\ in = NoIn
    /\ out = Pending

Next ==
    \/ \E c \in Ctx, i \in MakeInputs : Make(c, i)
    \/ \E c \in Ctx : Set(c)
    \/ \E c \in Ctx : Clear(c)
    \/ \E c \in Ctx : Tst(c)
    \/ \E c \in Ctx : BusFault(c)
    \/ IsrEnter
    \/ IsrExit

Spec == Init /\ [][Next]_vars

----------------------------------------------------------------------------
(* A single call of abb_make on arguments drawn from the whole range of   *)
(* uint8_t bit numbers and from cell addresses inside, at the edges of    *)
(* and outside the bit-band region.                                       *)

MaxLowOffset == 5

MakeAddrs ==
    {Add32(SRAM1_BASE, ToU32(k)) : k \in 0..MaxLowOffset}
    \cup { U32(\h2000, \hFFFF), U32(\h2001, 0), U32(\h2008, 0),
           U32(\h200F, \hFFFF),
           U32(0, 0), U32(\h1FFF, \hFFFF), U32(\h2010, 0), U32(\h26F0, 0),
           U32(\h2800, 0), U32(\h2800, 4), U32(\h280F, \hFFFF),
           U32(\h2810, 0), U32(\h4000, 0), U32(\hA000, 4),
           U32(\hFFFF, \hFFFF) }

InitMake ==
    /\ in \in [addr : MakeAddrs, bit : 0..UINT8_MAX]
    /\ out = Pending
    /\ mem = [c \in Cells |-> 0]
    /\ ram = [a \in PlainWords |-> ZERO]
    /\ flag = [c \in Ctx |-> INVALID_FLAG]
    /\ ret = NoRet
    /\ last = [h \in Tracked |-> NoWrite]
    /\ inIsr = FALSE
    /\ fault = FALSE

MakeCall ==
    /\ ~out.done
    /\ out' = Returned(abb_make(in.addr, in.bit))
    /\ UNCHANGED <<in, mem, ram, flag, ret, last, inIsr, fault>>

NextMake == MakeCall

SpecMake == InitMake /\ [][NextMake]_vars

----------------------------------------------------------------------------
(* Reference arithmetic for the properties, on plain integers             *)

\* the value of a, for a below 2^31
ToInt(a) == a.hi * LIMB + a.lo

\* the (cell, bit) pair whose alias word is a, for a in the alias region
PairOf(a) ==
    LET off == ToInt(a) - ToInt(SRAM1_BB_BASE)
    IN  [addr |-> ToU32(ToInt(SRAM1_BASE) + off \div 32),
         bit |-> (off % 32) \div 4]

\* (addr - SRAM1_BASE) mod 2^27: the part of the byte offset that survives
\* the multiplication by 32 modulo 2^32
OffsetMod27(addr) == ((addr.hi - SRAM1_BASE.hi) % 2048) * LIMB + addr.lo

\* (SRAM1_BB_BASE + (addr - SRAM1_BASE) * 32 + bit * 4) mod 2^32, computed
\* on word indices modulo 2^30
WrappedAlias(addr, bit) ==
    LET q == (ToInt(SRAM1_BB_BASE) \div 4 + OffsetMod27(addr) * 8 + bit)
                 % (2 ^ 30)
    IN  U32(q \div 16384, (q % 16384) * 4)

ValidCall == out.done /\ in.bit \in 0..7

----------------------------------------------------------------------------
\* C1: for a cell inside the bit-band region and a bit index 0..7, abb_make
\* returns SRAM1_BB_BASE + (addr - SRAM1_BASE) * 32 + bit * 4; cell
\* 0x20000004 bit 3 gives 0x2200008C; the handles of bits 0 and 1 of one
\* cell are 4 apart.
C1_AddressFormula ==
    (ValidCall /\ InBitBand(in.addr)) =>
        /\ out.val = ToU32(ToInt(SRAM1_BB_BASE)
                           + (ToInt(in.addr) - ToInt(SRAM1_BASE)) * 32
                           + in.bit * 4)
        /\ (in.addr = U32(\h2000, 4) /\ in.bit = 3)
               => out.val = U32(\h2200, \h008C)
        /\ in.bit = 0
               => ToInt(abb_make(in.addr, 1)) = ToInt(out.val) + 4

C1_Witness ==
    /\ out.done
    /\ in = [addr |-> U32(\h2000, 4), bit |-> 3]
    /\ out.val = U32(\h2200, \h008C)

\* C2: for a bit index 8..255 abb_make returns INVALID_FLAG, whatever the
\* cell address.
C2_InvalidBit ==
    (out.done /\ in.bit \in 8..UINT8_MAX) => out.val = INVALID_FLAG

C2_Witness ==
    /\ out.done
    /\ in = [addr |-> U32(\h2000, 4), bit |-> 8]
    /\ out.val = INVALID_FLAG

\* the word-aligned alias addresses of the sampled in-window cells
AliasWordSamples ==
    {ToU32(ToInt(SRAM1_BB_BASE) + 4 * k) :
        k \in 0..(8 * (MaxLowOffset + 1) - 1)}
    \cup {U32(\h23FF, \hFFFC), U32(\h2220, 0)}

\* C6: on cells inside the bit-band region and bits 0..7 abb_make is a
\* bijection onto the word-aligned addresses of the alias region: the handle
\* is word-aligned and inside the region, it determines its (cell, bit) pair,
\* no other pair has it, and every alias word is the handle of its pair.
C6_Bijection ==
    (ValidCall /\ InBitBand(in.addr)) =>
        /\ InAlias(out.val)
        /\ out.val.lo % 4 = 0
        /\ PairOf(out.val) = in
        /\ \A a \in MakeAddrs, b \in 0..7 :
              (InBitBand(a) /\ [addr |-> a, bit |-> b] # in)
                  => abb_make(a, b) # out.val
        /\ \A w \in AliasWordSamples : PairOf(w) = in => out.val = w

C6_Witness ==
    /\ out.done
    /\ in = [addr |-> U32(\h200F, \hFFFF), bit |-> 7]
    /\ out.val = U32(\h23FF, \hFFFC)

\* C7 as stated: for a cell outside the bit-band region and a bit index
\* 0..7, abb_make reports no error and the address it returns lies outside
\* the alias region.
C7_OutsideAlias ==
    (ValidCall /\ ~InBitBand(in.addr)) =>
        /\ out.val # INVALID_FLAG
        /\ ~InAlias(out.val)

\* C7 amended: for a cell outside the bit-band region and a bit index 0..7,
\* abb_make makes no range check and returns
\* (SRAM1_BB_BASE + (addr - SRAM1_BASE) * 32 + bit * 4) mod 2^32; that
\* address lies outside the alias region exactly when
\* (addr - SRAM1_BASE) mod 2^27 is at least 2^20, and is the sentinel exactly
\* when (addr - SRAM1_BASE) mod 2^27 = 0x06F00000 and bit = 0.
C7_WrappedAddress ==
    (ValidCall /\ ~InBitBand(in.addr)) =>
        /\ out.val = WrappedAlias(in.addr, in.bit)
        /\ ~InAlias(out.val) <=> OffsetMod27(in.addr) >= 2 ^ 20
        /\ out.val = INVALID_FLAG
              <=> (OffsetMod27(in.addr) = \h06F00000 /\ in.bit = 0)

C7_Witness ==
    /\ out.done
    /\ in = [addr |-> U32(\h2800, 4), bit |-> 3]
    /\ out.val = U32(\h2200, \h008C)

\* C10: for a cell inside the bit-band region, abb_make returns INVALID_FLAG
\* if and only if the bit index is 8 or more.
C10_SentinelIffBadBit ==
    (out.done /\ InBitBand(in.addr)) =>
        (out.val = INVALID_FLAG <=> in.bit >= 8)

C10_Witness ==
    /\ out.done
    /\ in = [addr |-> SRAM1_BASE, bit |-> 0]
    /\ out.val = SRAM1_BB_BASE

----------------------------------------------------------------------------
(* Properties of abb_set, abb_clear and abb_tst on the storage cells      *)

HandleA3 == U32(\h2200, \h008C)

HandleA4 == U32(\h2200, \h0090)

\* bit n of cell x as ordinary byte access reads it
CellBit(x, n) == BitOf(mem[x], n)

\* the bit behind alias word h, read through the byte of its cell
BitBehind(h) == CellBit(PairOf(h).addr, PairOf(h).bit)

\* C3: abb_tst on the handle of a bit returns true if and only if the most
\* recent write through that handle, by either context, was abb_set.
C3_TestSeesLastWrite ==
    (ret.by # "none" /\ ret.h \in Tracked /\ last[ret.h].by # "none") =>
        (ret.v <=> last[ret.h].v = 1)

C3_Witness ==
    /\ ret.by = "main"
    /\ ret.h = HandleA3
    /\ last[HandleA3] = [v |-> 1, by |-> "isr"]
    /\ ret.v
    /\ mem[CellA] = \hAD

\* C4: abb_set or abb_clear on the handle of (cell, n) leaves every other
\* bit of that cell and every bit of every other cell as it was.
C4_OnlyTargetBitChanges ==
    [][\A c \in Ctx :
          (mem' # mem /\ (Set(c) \/ Clear(c))) =>
              \A cell \in Cells, n \in 0..7 :
                  flag[c] = abb_make(cell, n) =>
                      \A x \in Cells, m \in 0..7 :
                          (x # cell \/ m # n)
                              => CellBit(x, m)' = CellBit(x, m)]_vars

C4_Witness ==
    /\ last[HandleA3].v = 1
    /\ last[HandleA3].by # "none"
    /\ \E b \in InitBytes : BitOf(b, 3) = 0 /\ mem[CellA] = b + 8

\* C5: when the main thread and the interrupt handler last wrote different
\* bits of one cell, then with the handler finished each of the two bits
\* holds the value its own context wrote.
C5_NoLostUpdate ==
    \A h1 \in Tracked, h2 \in Tracked :
        ( /\ ~inIsr
          /\ h1 # h2
          /\ PairOf(h1).addr = PairOf(h2).addr
          /\ last[h1].by = "main"
          /\ last[h2].by = "isr" ) =>
              /\ BitBehind(h1) = last[h1].v
              /\ BitBehind(h2) = last[h2].v

C5_Witness ==
    /\ ~inIsr
    /\ last[HandleA3] = [v |-> 1, by |-> "main"]
    /\ last[HandleA4] = [v |-> 1, by |-> "isr"]
    /\ CellBit(CellA, 3) = 1
    /\ CellBit(CellA, 4) = 1
    /\ mem[CellA] = \hBD

\* C8: abb_tst returns true if and only if the word at the handle address is
\* exactly 1; any other word, nonzero ones included, gives false.
C8_StrictEquality ==
    ret.by # "none" =>
        /\ ret.v <=> ret.w = ONE
        /\ ret.h \in PlainWords => ret.w = ram[ret.h]
        /\ ret.h \in Tracked => ret.w = U32(0, BitBehind(ret.h))

C8_Witness ==
    /\ ret.by # "none"
    /\ ret.h \in PlainWords
    /\ ret.w = U32(1, 1)
    /\ ~ret.v

\* C9: abb_make and abb_tst leave every storage cell and every memory word
\* unchanged, and abb_make on the (cell, bit) pair whose handle the other
\* context already holds returns that same handle, whatever was set, cleared
\* or tested since.
C9_MakeAndTstArePure ==
    [][\A c \in Ctx :
          /\ ~UNCHANGED <<mem, ram>> =>
                /\ ~Tst(c)
                /\ \A i \in MakeInputs : ~Make(c, i)
          /\ \A o \in Ctx :
                ( /\ flag[o] \in Tracked
                  /\ last[flag[o]].by # "none"
                  /\ Make(c, PairOf(flag[o])) ) => flag'[c] = flag[o]
      ]_vars

C9_Witness ==
    /\ ret = [h |-> HandleA3, w |-> ONE, v |-> TRUE, by |-> "isr"]
    /\ flag["main"] = HandleA3
    /\ flag["isr"] = HandleA3
    /\ last[HandleA3] = [v |-> 1, by |-> "main"]
    /\ mem[CellA] = \hAD

====
